---- MODULE Spec2Model ----
(***************************************************************************)
(* A model of lake.py: the batch job process_data, which acquires an OAuth *)
(* token, fetches provider records, geocodes their addresses on a pool of  *)
(* worker threads, fetches census rows, joins them to FIPS names and       *)
(* writes two timestamped files.                                           *)
(*                                                                         *)
(* Python values are modelled with one shape per kind of value:            *)
(*   a (lat, lng) pair   [none |-> BOOLEAN, lat |-> Int, lng |-> Int]      *)
(*   a JSON cell         [null |-> BOOLEAN, s |-> STRING]                  *)
(*   an optional list    [none |-> BOOLEAN, rows |-> Seq(...)]             *)
(***************************************************************************)
EXTENDS Integers, Sequences, FiniteSets, TLC

(* ------------------------------------------------------------------ *)
(* Bounds of the model                                                *)
(* ------------------------------------------------------------------ *)

\* the clock takes the values 0..MaxTime (seconds)
MaxTime == 2

\* the provider endpoint answers with at most MaxRows records
MaxRows == 2

\* the geocoding endpoint fails only for the addresses 1..MaxFlakyAddress
MaxFlakyAddress == 5

\* number of addresses of the data frame the pool specification starts from
NumAddr == 11

\* the retry specification starts from a frame of at most MaxCalls addresses
MaxCalls == 3

\* the census loop specification starts from at most MaxCensusRows rows
MaxCensusRows == 2

(* ------------------------------------------------------------------ *)
(* Program constants                                                  *)
(* ------------------------------------------------------------------ *)

\* lake.py:9   STATE_FIPS = '26'
STATE_FIPS == "26"

\* lake.py:32  time() + expires_in - 60
TOKEN_BUFFER == 60

\* lake.py:56  for _ in range(3)
RETRIES == 3

\* lake.py:75  ThreadPoolExecutor(max_workers=10)
max_workers == 10

\* lake.py:144 required_columns
required_columns == {"AddressLine1", "City", "ZipCode"}

VARIABLES
    pc,              \* position of the main thread in process_data
    now,             \* the wall clock, what time() returns
    error,           \* the exception process_data ended with, "" if none
    access_token,    \* global access_token (0: not assigned yet)
    token_expiry,    \* global token_expiry
    token_data,      \* the last token response get_access_token parsed
    tokenTime,       \* what time() returned on line 32 for that response
    tokenPosts,      \* number of POSTs to the token endpoint
    tokensIssued,    \* number of tokens the token endpoint has issued
    checkTime,       \* what time() returned on line 36
    bearer,          \* the token fetch_data put in the Authorization header
    dataGets,        \* number of GETs to the provider endpoint
    columns,         \* df.columns
    df,              \* the rows of df
    task,            \* the pool's work items, one per row of df
    geocode_results, \* what geocode_addresses_concurrently returned
    censusReqs,      \* number of GETs to the census endpoint
    census_data,     \* what fetch_census_data returned
    census_i,        \* rows of census_data the loop of line 163 has consumed
    census_results,  \* census_results
    timestamp,       \* strftime's result on line 177 (-1: not taken yet)
    files            \* the files written, in order

vars == <<pc, now, error, access_token, token_expiry, token_data, tokenTime,
          tokenPosts, tokensIssued, checkTime, bearer, dataGets, columns, df,
          task, geocode_results, censusReqs, census_data, census_i,
          census_results, timestamp, files>>

tokenVars == <<access_token, token_expiry, token_data, tokenTime, tokenPosts,
               tokensIssued, checkTime, bearer>>
providerVars == <<dataGets, columns, df>>
poolVars == <<task, geocode_results>>
censusVars == <<censusReqs, census_data, census_i, census_results>>
outVars == <<timestamp, files>>

(* ------------------------------------------------------------------ *)
(* Python values                                                      *)
(* ------------------------------------------------------------------ *)

\* (None, None), line 72
NoneNone == [none |-> TRUE, lat |-> 0, lng |-> 0]

LatLng(lat, lng) == [none |-> FALSE, lat |-> lat, lng |-> lng]

\* JSON null and a JSON string
Null == [null |-> TRUE, s |-> ""]

Str(x) == [null |-> FALSE, s |-> x]

\* None and a list, as fetch_census_data returns them
NoList == [none |-> TRUE, rows |-> <<>>]

List(rows) == [none |-> FALSE, rows |-> rows]

Range(f) == {f[i] : i \in DOMAIN f}

SeqsUpTo(S, n) == UNION {[1..k -> S] : k \in 0..n}

(* ------------------------------------------------------------------ *)
(* get_access_token, get_valid_access_token, fetch_data (lines 19-49) *)
(* ------------------------------------------------------------------ *)

\* expires_in values the token endpoint may answer with, around the buffer
ExpiresIn == {TOKEN_BUFFER - 1, TOKEN_BUFFER, TOKEN_BUFFER + 1, TOKEN_BUFFER + 2}

NoTokenData == [access_token |-> 0, expires_in |-> 0]

\* The answers of the token endpoint: an HTTP error (raise_for_status), a
\* body without access_token (ValueError), or a fresh token.
TokenResponses ==
    {[kind |-> "http_error", expires_in |-> 0],
     [kind |-> "no_token", expires_in |-> 0]}
    \cup {[kind |-> "ok", expires_in |-> e] : e \in ExpiresIn}

\* line 32: the pair get_access_token returns, given the parsed response and
\* the clock at the time the return statement runs
get_access_token_result(data, t) ==
    <<data.access_token, t + data.expires_in - TOKEN_BUFFER>>

\* lines 25-32 once the POST has been answered; the caller (line 37 or
\* line 137) assigns both globals from the returned pair
get_access_token_return(next) ==
    \E r \in TokenResponses :
        IF r.kind = "ok"
        THEN LET data == [access_token |-> tokensIssued + 1,
                          expires_in |-> r.expires_in]
                 res == get_access_token_result(data, now)
             IN /\ tokensIssued' = tokensIssued + 1
                /\ token_data' = data
                /\ tokenTime' = now
                /\ access_token' = res[1]
                /\ token_expiry' = res[2]
                /\ pc' = next
                /\ error' = error
        ELSE /\ pc' = "raised"
             /\ error' = IF r.kind = "http_error" THEN "HTTPError" ELSE "ValueError"
             /\ UNCHANGED <<tokensIssued, token_data, tokenTime, access_token,
                            token_expiry>>

\* line 137, up to the POST of line 25
ProcessDataStart ==
    /\ pc = "start"
    /\ pc' = "token_wait"
    /\ tokenPosts' = tokenPosts + 1
    /\ UNCHANGED <<now, error, access_token, token_expiry, token_data, tokenTime,
                   tokensIssued, checkTime, bearer, providerVars, poolVars,
                   censusVars, outVars>>

\* line 137, from the answer of the POST to the assignment of the globals
ProcessDataToken ==
    /\ pc = "token_wait"
    /\ get_access_token_return("fetch_check")
    /\ UNCHANGED <<now, tokenPosts, checkTime, bearer, providerVars, poolVars,
                   censusVars, outVars>>

\* a check that keeps the token at the very second it expires
token_expired_strictly(t) == t > token_expiry

\* line 36: whether the stored token has to be replaced
token_expired(t) == t >= token_expiry

\* lines 36-38 and 41-44 of get_valid_access_token called by fetch_data: the
\* check of the expiry; with a valid token the GET is sent right away
get_valid_access_token ==
    /\ pc = "fetch_check"
    /\ checkTime' = now
    /\ IF token_expired(now)
       THEN /\ pc' = "refresh_wait"
            /\ tokenPosts' = tokenPosts + 1
            /\ UNCHANGED <<bearer, dataGets>>
       ELSE /\ pc' = "data_wait"
            /\ bearer' = access_token
            /\ dataGets' = dataGets + 1
            /\ UNCHANGED tokenPosts
    /\ UNCHANGED <<now, error, access_token, token_expiry, token_data, tokenTime,
                   tokensIssued, columns, df, poolVars, censusVars, outVars>>

\* line 37 from the answer of the POST on, then lines 38 and 41-44
RefreshToken ==
    /\ pc = "refresh_wait"
    /\ get_access_token_return("data_wait")
    /\ IF pc' = "data_wait"
       THEN /\ bearer' = access_token'
            /\ dataGets' = dataGets + 1
       ELSE UNCHANGED <<bearer, dataGets>>
    /\ UNCHANGED <<now, tokenPosts, checkTime, columns, df, poolVars, censusVars,
                   outVars>>

(* ------------------------------------------------------------------ *)
(* fetch_data's answer and the data frame (lines 44-49, 140-151)      *)
(* ------------------------------------------------------------------ *)

\* A provider record: the keys it has among the required ones, and the
\* address its fields spell.
ProviderRecords ==
    {[keys |-> required_columns, addr |-> a] : a \in 1..2}
    \cup {[keys |-> {"AddressLine1", "City"}, addr |-> 1]}

\* The answers of the provider endpoint: an HTTP error (raise_for_status), a
\* body without 'value' (KeyError), or a list of records.
ProviderResponses ==
    {[kind |-> "http_error", value |-> <<>>],
     [kind |-> "no_value", value |-> <<>>]}
    \cup {[kind |-> "ok", value |-> v] : v \in SeqsUpTo(ProviderRecords, MaxRows)}

\* line 141: the columns of pd.DataFrame(provider_data) are the keys of all
\* the records together
frame_columns(provider_data) == UNION {r.keys : r \in Range(provider_data)}

\* a check that only fails when every required column is missing
missing_columns_all(cols) == required_columns \cap cols = {}

\* line 145: not required_columns.issubset(df.columns)
missing_columns(cols) == ~(required_columns \subseteq cols)

\* lines 149-151: the 'Full Address' of a record, an address identifier; a
\* record that lacks a field of an existing column spells it with 'nan',
\* which is another address
full_address(r) ==
    IF required_columns \subseteq r.keys THEN 2 * r.addr ELSE 2 * r.addr + 1

FrameRow(a) == [address |-> a, geo |-> NoneNone]

\* lines 44-49 from the answer of the GET on, then lines 141-151
FetchDataReturn ==
    /\ pc = "data_wait"
    /\ \E r \in ProviderResponses :
        IF r.kind # "ok"
        THEN /\ pc' = "raised"
             /\ error' = IF r.kind = "http_error" THEN "HTTPError" ELSE "KeyError"
             /\ UNCHANGED <<columns, df>>
        ELSE LET cols == frame_columns(r.value) IN
             IF missing_columns(cols)
             THEN /\ pc' = "raised"
                  /\ error' = "ValueError"
                  /\ columns' = cols
                  /\ df' = <<>>
             ELSE /\ pc' = "geocode_submit"
                  /\ error' = error
                  /\ columns' = cols \cup {"Full Address"}
                  /\ df' = [i \in 1..Len(r.value) |-> FrameRow(full_address(r.value[i]))]
    /\ UNCHANGED <<now, tokenVars, dataGets, poolVars, censusVars, outVars>>

(* ------------------------------------------------------------------ *)
(* geocode_address and geocode_addresses_concurrently (lines 54-77)   *)
(* ------------------------------------------------------------------ *)

\* What one request to the geocoding endpoint can end with: HTTP 200 with
\* status OK and results; another HTTP status; another status; an empty
\* result list; a RequestException.
GeocodeOutcomes == {"ok", "http_error", "bad_status", "no_results", "exception"}

\* lines 55, 62: the location the endpoint gives for an address
Location(address) == LatLng(10 * address + 1, 10 * address + 2)

\* A work item of the pool: one call of geocode_address.
\*   calls: times geocode_address was entered for it
\*   requests: requests.get calls of line 58; failures: those that failed
NewTask == [st |-> "queued", calls |-> 0, requests |-> 0, failures |-> 0,
            result |-> NoneNone]

Running == {i \in DOMAIN task : task[i].st = "running"}

AllDone == \A i \in DOMAIN task : task[i].st = "done"

\* a retry loop with one iteration too many
retry_left_one_more(made) == made < RETRIES + 1

\* line 56: whether the loop has another iteration after `made` requests
retry_left(made) == made < RETRIES

\* lines 56-72: one iteration of the retry loop of a work item, with the
\* return that follows a success or the last failure
geocode_address(t, address, outcome) ==
    IF outcome = "ok"
    THEN [t EXCEPT !.requests = @ + 1, !.st = "done",
                   !.result = Location(address)]
    ELSE IF retry_left(t.requests + 1)
    THEN [t EXCEPT !.requests = @ + 1, !.failures = @ + 1]
    ELSE [t EXCEPT !.requests = @ + 1, !.failures = @ + 1, !.st = "done",
                   !.result = NoneNone]

\* a pool that starts a thread per work item
idle_worker_unbounded == TRUE

\* line 75: a worker thread is free to take a work item
idle_worker == Cardinality(Running) < max_workers

\* line 76: executor.map submits one work item per address
GeocodeSubmit ==
    /\ pc = "geocode_submit"
    /\ pc' = "geocode"
    /\ task' = [i \in 1..Len(df) |-> NewTask]
    /\ UNCHANGED <<now, error, tokenVars, providerVars, geocode_results,
                   censusVars, outVars>>

\* a worker takes the oldest queued work item and enters geocode_address
WorkerStart(i) ==
    /\ pc = "geocode"
    /\ i \in DOMAIN task
    /\ task[i].st = "queued"
    /\ \A j \in 1..(i - 1) : task[j].st # "queued"
    /\ idle_worker
    /\ task' = [task EXCEPT ![i].st = "running", ![i].calls = @ + 1]
    /\ UNCHANGED <<pc, now, error, tokenVars, providerVars, geocode_results,
                   censusVars, outVars>>

\* a lambda that geocodes the first address whatever the row
task_address_first(i) == df[1].address

\* the address the work item of row i geocodes (the lambda of line 76)
task_address(i) == df[i].address

\* a geocode_address that stores the time of its request in a global
geocode_address_globals_stamped ==
    /\ token_expiry' = now + 1
    /\ UNCHANGED <<access_token, token_data, tokenTime, tokenPosts, tokensIssued,
                   checkTime, bearer>>

\* lines 54-72: geocode_address declares no global and assigns none
geocode_address_globals == UNCHANGED tokenVars

\* a worker runs one iteration of the retry loop for its work item
WorkerAttempt(i) ==
    /\ pc = "geocode"
    /\ i \in DOMAIN task
    /\ task[i].st = "running"
    /\ \E o \in GeocodeOutcomes :
        /\ o # "ok" => task_address(i) <= MaxFlakyAddress
        /\ task' = [task EXCEPT ![i] = geocode_address(@, task_address(i), o)]
    /\ geocode_address_globals
    /\ UNCHANGED <<pc, now, error, providerVars, geocode_results, censusVars,
                   outVars>>

\* lines 76-77: list(executor.map(...)) has every result, in the order of the
\* rows, and the with block has waited for the pool to shut down
collect_results == [i \in DOMAIN task |-> task[i].result]

GeocodeReturn ==
    /\ pc = "geocode"
    /\ AllDone
    /\ geocode_results' = collect_results
    /\ pc' = "assign"
    /\ UNCHANGED <<now, error, tokenVars, providerVars, task, censusVars, outVars>>

\* line 155: the two columns zip(*geocode_results) gives, stored on the rows
assign_columns(rows, results) ==
    [i \in DOMAIN rows |-> [rows[i] EXCEPT !.geo = results[i]]]

\* line 155, then line 158 up to the GET of line 86. zip(*[]) gives nothing
\* to unpack: a ValueError. The pool's work items are gone by now.
AssignAndRequestCensus ==
    /\ pc = "assign"
    /\ IF geocode_results = <<>>
       THEN /\ pc' = "raised"
            /\ error' = "ValueError"
            /\ UNCHANGED <<columns, df, censusReqs>>
       ELSE /\ pc' = "census_wait"
            /\ error' = error
            /\ columns' = columns \cup {"Latitude", "Longitude"}
            /\ df' = assign_columns(df, geocode_results)
            /\ censusReqs' = censusReqs + 1
    /\ task' = <<>>
    /\ UNCHANGED <<now, tokenVars, dataGets, geocode_results, census_data,
                   census_i, census_results, outVars>>

(* ------------------------------------------------------------------ *)
(* The census request and the rows it is answered with (lines 12-16,  *)
(* 79-98)                                                             *)
(* ------------------------------------------------------------------ *)

\* lines 12-16: the age groups and their variables, in the order of the dict
variables ==
    <<[group |-> "0-3", vars |-> <<"B01001_003E", "B01001_027E">>],
      [group |-> "3-5", vars |-> <<"B01001_004E", "B01001_028E">>],
      [group |-> "6-11", vars |-> <<"B01001_005E", "B01001_006E",
                                    "B01001_029E", "B01001_030E">>]>>

\* line 81: ','.join(variables.values())
get_param == variables[1].vars \o variables[2].vars \o variables[3].vars

\* lines 81-83: the columns of the answer are the requested variables, then
\* the geography of 'in' (state) and the geography of 'for' (county)
census_header == get_param \o <<"state", "county">>

ColumnOf(name) == CHOOSE k \in DOMAIN census_header : census_header[k] = name

\* The estimates of a county, by variable.
Estimates ==
    {[v \in Range(get_param) |-> Str("0")],
     ("B01001_003E" :> Str("1")) @@ ("B01001_027E" :> Str("2")) @@
     ("B01001_004E" :> Str("4")) @@ ("B01001_028E" :> Str("8")) @@
     ("B01001_005E" :> Str("16")) @@ ("B01001_006E" :> Str("32")) @@
     ("B01001_029E" :> Str("64")) @@ ("B01001_030E" :> Str("128"))}

\* The county codes the endpoint knows; "999" has no entry in the table.
CountyCodes == {"001", "003", "999"}

\* the row of the answer for a county
census_row(county, est) ==
    [k \in DOMAIN census_header |->
        IF census_header[k] = "state" THEN Str(STATE_FIPS)
        ELSE IF census_header[k] = "county" THEN Str(county)
        ELSE est[census_header[k]]]

WellFormedRows == {census_row(c, e) : c \in CountyCodes, e \in Estimates}

BaseEstimates == CHOOSE e \in Estimates : e["B01001_003E"] = Str("1")

BaseRow == census_row("001", BaseEstimates)

\* Rows the endpoint can also hand out: an estimate that is null or not a
\* number, and rows cut short.
MalformedRows ==
    {[BaseRow EXCEPT ![k] = c] : k \in 1..Len(get_param), c \in {Null, Str("N/A")}}
    \cup {SubSeq(BaseRow, 1, n) : n \in 0..(Len(BaseRow) - 1)}

CensusRows == WellFormedRows \cup MalformedRows

HeaderRow == [k \in DOMAIN census_header |-> Str(census_header[k])]

\* The bodies the endpoint answers process_data with: the header and at most
\* one row.
CensusBodies ==
    {<<>>, <<HeaderRow>>}
    \cup {<<HeaderRow, r>> : r \in {BaseRow, census_row("999", BaseEstimates),
                                    [BaseRow EXCEPT ![1] = Str("N/A")],
                                    [BaseRow EXCEPT ![1] = Null]}}

CensusResponses ==
    {[status |-> 500, json |-> FALSE, body |-> <<>>],
     [status |-> 200, json |-> FALSE, body |-> <<>>]}
    \cup {[status |-> 200, json |-> TRUE, body |-> b] : b \in CensusBodies}

\* data[1:]
SkipHeader(data) == IF data = <<>> THEN <<>> ELSE Tail(data)

\* lines 88-98: what fetch_census_data returns for an answer
fetch_census_data(r) ==
    IF r.status = 200
    THEN IF r.json THEN List(SkipHeader(r.body)) ELSE NoList
    ELSE NoList

\* a loop entered without the test of line 162
truthy_always(data) == TRUE

\* line 162: `if census_data:` is false for None and for an empty list
truthy(data) == ~data.none /\ data.rows # <<>>

\* lines 86-98 from the answer of the GET on, then lines 161-162
FetchCensusReturn ==
    /\ pc = "census_wait"
    /\ \E r \in CensusResponses :
        /\ census_data' = fetch_census_data(r)
        /\ pc' = IF truthy(census_data') THEN "census_loop" ELSE "stamp"
    /\ census_i' = 0
    /\ census_results' = <<>>
    /\ UNCHANGED <<now, error, tokenVars, providerVars, poolVars, censusReqs,
                   outVars>>

(* ------------------------------------------------------------------ *)
(* The FIPS table and process_census_data_with_names (lines 101-133)  *)
(* ------------------------------------------------------------------ *)

\* mi_fips_data.data: a sample of the table, in the shape lines 102-110 read
fips_data ==
    <<[State |-> "26", County_Code |-> "001", County_Name |-> "Alcona County",
       Place_Code |-> "00380", Place_Name |-> "Addison"],
      [State |-> "26", County_Code |-> "003", County_Name |-> "Alger County",
       Place_Code |-> "00440", Place_Name |-> "Adrian"],
      [State |-> "27", County_Code |-> "001", County_Name |-> "Aitkin County",
       Place_Code |-> "00460", Place_Name |-> "Ada"]>>

\* int(x) for the strings of the model: the number a decimal string spells
IntOfString ==
    ("0" :> 0) @@ ("1" :> 1) @@ ("2" :> 2) @@ ("4" :> 4) @@ ("8" :> 8) @@
    ("16" :> 16) @@ ("26" :> 26) @@ ("32" :> 32) @@ ("64" :> 64) @@
    ("128" :> 128) @@ ("001" :> 1) @@ ("003" :> 3) @@ ("999" :> 999)

\* the exception int(cell) raises, "" when it returns: int(None) is a
\* TypeError, int of a string that spells no number a ValueError
int_error(cell) ==
    IF cell.null THEN "TypeError"
    ELSE IF cell.s \in DOMAIN IntOfString THEN ""
    ELSE "ValueError"

int(cell) == IntOfString[cell.s]

\* lines 102-105
get_county_name_from_fips(state_fips, county_fips, table) ==
    LET hits == {k \in DOMAIN table :
                    /\ Str(table[k].State) = Str(state_fips)
                    /\ Str(table[k].County_Code) = county_fips}
    IN IF hits = {} THEN "Unknown County"
       ELSE table[CHOOSE k \in hits : \A j \in hits : k <= j].County_Name

\* lines 108-111
get_place_name_from_fips(state_fips, place_fips, table) ==
    LET hits == {k \in DOMAIN table :
                    /\ Str(table[k].State) = Str(state_fips)
                    /\ Str(table[k].Place_Code) = place_fips}
    IN IF hits = {} THEN "Unknown City/Town"
       ELSE table[CHOOSE k \in hits : \A j \in hits : k <= j].Place_Name

\* lines 116-118: the columns (from 1) each sum runs over
columns_0_3 == 1..2

columns_3_5 == 3..4

columns_6_11 == 5..8

RECURSIVE SumOver(_, _)
SumOver(data, S) ==
    IF S = {} THEN 0
    ELSE LET k == CHOOSE x \in S : TRUE
         IN int(data[k]) + SumOver(data, S \ {k})

\* lines 116-118: the exception reading int(data[k]) raises, "" if none
cell_error(data, k) ==
    IF k > Len(data) THEN "IndexError" ELSE int_error(data[k])

\* line 121: data[-2]
county_fips_of(data) == data[Len(data) - 1]

\* line 122: data[-1]
place_fips_of(data) == data[Len(data)]

\* line 131: the exceptions the function catches
caught(e) == e \in {"ValueError", "IndexError"}

RowResult(raised, county, city, a, b, c) ==
    [raised |-> raised, county |-> county, city |-> city, children_0_3 |-> a,
     children_3_5 |-> b, children_6_11 |-> c]

\* lines 113-133: the tuple returned, or the exception that escapes. The
\* three sums read columns 1..8 in order; the first that fails decides.
process_census_data_with_names(data, table) ==
    LET read == columns_0_3 \cup columns_3_5 \cup columns_6_11
        bad == {k \in read : cell_error(data, k) # ""}
        first == CHOOSE k \in bad : \A j \in bad : k <= j
    IN IF bad = {}
       THEN RowResult("",
                get_county_name_from_fips(STATE_FIPS, county_fips_of(data), table),
                get_place_name_from_fips(STATE_FIPS, place_fips_of(data), table),
                SumOver(data, columns_0_3), SumOver(data, columns_3_5),
                SumOver(data, columns_6_11))
       ELSE IF caught(cell_error(data, first))
       THEN RowResult("", "Unknown County", "Unknown City/Town", 0, 0, 0)
       ELSE RowResult(cell_error(data, first), "", "", 0, 0, 0)

\* lines 163-171: one iteration of the loop over census_data (iterating
\* None is a TypeError)
CensusLoopStep ==
    /\ pc = "census_loop"
    /\ ~census_data.none => census_i < Len(census_data.rows)
    /\ LET r == IF census_data.none
                THEN RowResult("TypeError", "", "", 0, 0, 0)
                ELSE process_census_data_with_names(
                         census_data.rows[census_i + 1], fips_data)
       IN IF r.raised # ""
          THEN /\ pc' = "raised"
               /\ error' = r.raised
               /\ UNCHANGED <<census_i, census_results>>
          ELSE /\ census_i' = census_i + 1
               /\ census_results' = Append(census_results,
                      [county |-> r.county, city |-> r.city,
                       children_0_3 |-> r.children_0_3,
                       children_3_5 |-> r.children_3_5,
                       children_6_11 |-> r.children_6_11])
               /\ UNCHANGED <<pc, error>>
    /\ UNCHANGED <<now, tokenVars, providerVars, poolVars, censusReqs,
                   census_data, outVars>>

\* line 163: the loop has consumed every row
CensusLoopEnd ==
    /\ pc = "census_loop"
    /\ ~census_data.none
    /\ census_i = Len(census_data.rows)
    /\ pc' = "stamp"
    /\ UNCHANGED <<now, error, tokenVars, providerVars, poolVars, censusVars,
                   outVars>>

(* ------------------------------------------------------------------ *)
(* The output files (lines 174-184)                                   *)
(* ------------------------------------------------------------------ *)

\* lines 174-177: strftime reads the clock once
StampTime ==
    /\ pc = "stamp"
    /\ timestamp' = now
    /\ pc' = "write_providers"
    /\ UNCHANGED <<now, error, tokenVars, providerVars, poolVars, censusVars,
                   files>>

\* a census file named after a second call of strftime
census_file_stamp_fresh == now

\* line 181: the time stamp in the name of the census file
census_file_stamp == timestamp

File(name, stamp, rows) == [name |-> name, stamp |-> stamp, rows |-> rows]

\* line 180
WriteProviders ==
    /\ pc = "write_providers"
    /\ files' = Append(files, File("processed_providers", timestamp, df))
    /\ pc' = "write_census"
    /\ UNCHANGED <<now, error, tokenVars, providerVars, poolVars, censusVars,
                   timestamp>>

\* lines 181-184
WriteCensus ==
    /\ pc = "write_census"
    /\ files' = Append(files, File("processed_census", census_file_stamp,
                                   census_results))
    /\ pc' = "done"
    /\ UNCHANGED <<now, error, tokenVars, providerVars, poolVars, censusVars,
                   timestamp>>

(* ------------------------------------------------------------------ *)
(* The clock                                                          *)
(* ------------------------------------------------------------------ *)

Ended == pc \in {"done", "raised"}

\* a second passes
Tick ==
    /\ ~Ended
    /\ now < MaxTime
    /\ now' = now + 1
    /\ UNCHANGED <<pc, error, tokenVars, providerVars, poolVars, censusVars,
                   outVars>>

(* ------------------------------------------------------------------ *)
(* process_data from its first line                                   *)
(* ------------------------------------------------------------------ *)

Init ==
    /\ pc = "start"
    /\ now = 0
    /\ error = ""
    /\ access_token = 0
    /\ token_expiry = 0
    /\ token_data = NoTokenData
    /\ tokenTime = 0
    /\ tokenPosts = 0
    /\ tokensIssued = 0
    /\ checkTime = 0
    /\ bearer = 0
    /\ dataGets = 0
    /\ columns = {}
    /\ df = <<>>
    /\ task = <<>>
    /\ geocode_results = <<>>
    /\ censusReqs = 0
    /\ census_data = NoList
    /\ census_i = 0
    /\ census_results = <<>>
    /\ timestamp = -1
    /\ files = <<>>

Worker == \E i \in DOMAIN task : WorkerStart(i) \/ WorkerAttempt(i)

Next ==
    \/ ProcessDataStart
    \/ ProcessDataToken
    \/ get_valid_access_token
    \/ RefreshToken
    \/ FetchDataReturn
    \/ GeocodeSubmit
    \/ Worker
    \/ GeocodeReturn
    \/ AssignAndRequestCensus
    \/ FetchCensusReturn
    \/ CensusLoopStep
    \/ CensusLoopEnd
    \/ StampTime
    \/ WriteProviders
    \/ WriteCensus
    \/ Tick

Spec == Init /\ [][Next]_vars

(* ------------------------------------------------------------------ *)
(* geocode_addresses_concurrently alone, on a frame of up to NumAddr  *)
(* rows (more rows than the pool has workers)                         *)
(* ------------------------------------------------------------------ *)

\* the state process_data is in on line 154, after a first token with
\* expires_in = TOKEN_BUFFER + 2 and a provider answer of n complete records
AtLine154(n) ==
    /\ pc = "geocode_submit"
    /\ now = 0
    /\ error = ""
    /\ access_token = 1
    /\ token_expiry = 2
    /\ token_data = [access_token |-> 1, expires_in |-> TOKEN_BUFFER + 2]
    /\ tokenTime = 0
    /\ tokenPosts = 1
    /\ tokensIssued = 1
    /\ checkTime = 0
    /\ bearer = 1
    /\ dataGets = 1
    /\ columns = required_columns \cup {"Full Address"}
    /\ df = [i \in 1..n |->
                FrameRow(full_address([keys |-> required_columns, addr |-> i]))]
    /\ task = <<>>
    /\ geocode_results = <<>>
    /\ censusReqs = 0
    /\ census_data = NoList
    /\ census_i = 0
    /\ census_results = <<>>
    /\ timestamp = -1
    /\ files = <<>>

InitPool == \E n \in 1..NumAddr : AtLine154(n)

NextPool ==
    \/ GeocodeSubmit
    \/ Worker
    \/ GeocodeReturn

SpecPool == InitPool /\ [][NextPool]_vars

\* The worker threads keep running: while a work item can be taken or a
\* request of line 58 is out (it ends, timeout=30), some worker takes a step;
\* and the main thread returns once every result is there.
InitGeocode == \E n \in 1..MaxCalls : AtLine154(n)

FairSpecGeocode ==
    InitGeocode /\ [][NextPool]_vars /\ WF_vars(Worker) /\ WF_vars(GeocodeReturn)

(* ------------------------------------------------------------------ *)
(* The census loop alone (lines 161-171), on up to MaxCensusRows rows *)
(* of any shape the endpoint can hand out                             *)
(* ------------------------------------------------------------------ *)

\* the state process_data is in on line 161, after geocoding one address,
\* when fetch_census_data has returned the list `rows`
AtLine161(rows) ==
    /\ pc = IF truthy(List(rows)) THEN "census_loop" ELSE "stamp"
    /\ now = 0
    /\ error = ""
    /\ access_token = 1
    /\ token_expiry = 2
    /\ token_data = [access_token |-> 1, expires_in |-> TOKEN_BUFFER + 2]
    /\ tokenTime = 0
    /\ tokenPosts = 1
    /\ tokensIssued = 1
    /\ checkTime = 0
    /\ bearer = 1
    /\ dataGets = 1
    /\ columns = required_columns \cup {"Full Address", "Latitude", "Longitude"}
    /\ df = <<[address |-> 2, geo |-> Location(2)]>>
    /\ task = <<>>
    /\ geocode_results = <<Location(2)>>
    /\ censusReqs = 1
    /\ census_data = List(rows)
    /\ census_i = 0
    /\ census_results = <<>>
    /\ timestamp = -1
    /\ files = <<>>

InitCensus == \E rows \in SeqsUpTo(CensusRows, MaxCensusRows) : AtLine161(rows)

NextCensus ==
    \/ CensusLoopStep
    \/ CensusLoopEnd

SpecCensus == InitCensus /\ [][NextCensus]_vars

(* ================================================================== *)
(* The claims                                                         *)
(* ================================================================== *)

\* the variables of an age group, as line 81 requested them
GroupVars(g) == (CHOOSE v \in Range(variables) : v.group = g).vars

RECURSIVE SumSeq(_)
SumSeq(q) == IF q = <<>> THEN 0 ELSE Head(q) + SumSeq(Tail(q))

\* the sum of a row's estimates for the variables of an age group
GroupSum(row, g) ==
    SumSeq([k \in DOMAIN GroupVars(g) |-> int(row[ColumnOf(GroupVars(g)[k])])])

\* a row has fewer than 8 columns or a value that is no integer in them
Defective(row) ==
    \/ Len(row) < Len(get_param)
    \/ \E k \in 1..Len(get_param) : row[k].null \/ row[k].s \notin DOMAIN IntOfString

DefaultRecord ==
    [county |-> "Unknown County", city |-> "Unknown City/Town",
     children_0_3 |-> 0, children_3_5 |-> 0, children_6_11 |-> 0]

\* C6: every row the census request is answered with is written with the
\* County_Name of the table entry of state '26' whose County_Code is the
\* row's county code ('Unknown County' when there is none).
C6_CountyJoinedByCountyCode ==
    \A k \in 1..Len(census_results) :
        census_data.rows[k] \in WellFormedRows =>
            census_results[k].county =
                get_county_name_from_fips(STATE_FIPS,
                    census_data.rows[k][ColumnOf("county")], fips_data)

\* C8: each age group sums the columns of its own variables; a row with
\* fewer than 8 columns or a non-integer value gives the default record
\* and raises nothing; the loop emits one record per row.
C8_SumsAndDefaultsNeverRaise ==
    /\ error = ""
    /\ pc # "raised"
    /\ \A k \in 1..Len(census_results) :
        LET row == census_data.rows[k] IN
        IF Defective(row)
        THEN census_results[k] = DefaultRecord
        ELSE /\ census_results[k].children_0_3 = GroupSum(row, "0-3")
             /\ census_results[k].children_3_5 = GroupSum(row, "3-5")
             /\ census_results[k].children_6_11 = GroupSum(row, "6-11")
    /\ pc = "stamp" => Len(census_results) = Len(census_data.rows)

\* C1: at most 10 calls of geocode_address are in progress at any time, no
\* address is geocoded twice, and when geocode_addresses_concurrently
\* returns every address of the frame has been geocoded exactly once.
C1_PoolOfTenEachAddressOnce ==
    /\ Cardinality(Running) <= 10
    /\ pc \in {"geocode", "assign"} =>
        /\ DOMAIN task = DOMAIN df
        /\ \A i \in DOMAIN task :
            task[i].calls = IF task[i].st = "queued" THEN 0 ELSE 1
    /\ pc = "assign" =>
        /\ Len(geocode_results) = Len(df)
        /\ \A i \in DOMAIN task : task[i].st = "done" /\ task[i].calls = 1

\* C1's case: all ten workers are busy and an address still waits
C1_Witness ==
    /\ Cardinality(Running) = 10
    /\ \E i \in DOMAIN task : task[i].st = "queued"

C2_Requests ==
    \A i \in DOMAIN task :
        LET t == task[i] IN
        /\ t.requests <= 3
        /\ t.st = "queued" => t.requests = 0
        /\ t.st = "running" => t.failures = t.requests
        /\ t.st = "done" =>
            /\ t.result.none <=> (t.requests = 3 /\ t.failures = 3)
            /\ ~t.result.none =>
                /\ t.failures = t.requests - 1
                /\ t.result = Location(df[i].address)

C2_NoRequestAfterReturn ==
    \A i \in DOMAIN task \cap DOMAIN task' :
        task[i].st = "done" => task'[i] = task[i]

C2_Terminates ==
    \A i \in 1..MaxCalls :
        (i \in DOMAIN task /\ task[i].st = "running")
            ~> (i \in DOMAIN task /\ task[i].st = "done")

\* C2: a call of geocode_address makes at most 3 requests, none after the
\* first that succeeds (whose location it returns), returns (None, None)
\* exactly when 3 requests failed, and ends.
C2_FixedRetryCount ==
    /\ []C2_Requests
    /\ [][C2_NoRequestAfterReturn]_vars
    /\ C2_Terminates

\* C2's case: one call returned (None, None) after 3 failures and another
\* returned a location after a failure
C2_Witness ==
    /\ \E i \in DOMAIN task :
        task[i].st = "done" /\ task[i].result.none /\ task[i].failures = 3
    /\ \E i \in DOMAIN task :
        task[i].st = "done" /\ ~task[i].result.none /\ task[i].failures > 0

\* C3: whatever the interleaving of the workers, the result list has one
\* entry per row, entry i is what geocoding row i's own address gave, and
\* that is what row i gets as Latitude and Longitude.
C3_RowKeepsItsOwnResult ==
    /\ pc = "assign" =>
        /\ Len(geocode_results) = Len(df)
        /\ \A i \in DOMAIN df :
            /\ geocode_results[i] = task[i].result
            /\ geocode_results[i] \in {Location(df[i].address), NoneNone}
            /\ geocode_results[i].none <=> task[i].failures = 3
    /\ "Latitude" \in columns =>
        /\ Len(geocode_results) = Len(df)
        /\ \A i \in DOMAIN df :
            /\ df[i].geo = geocode_results[i]
            /\ df[i].geo \in {Location(df[i].address), NoneNone}

\* C3's case: two rows with different addresses, the first geocoded and the
\* second not, stored on the frame
C3_Witness ==
    /\ "Latitude" \in columns
    /\ Len(df) = 2
    /\ df[1].address # df[2].address
    /\ df[1].geo = Location(df[1].address)
    /\ df[2].geo = NoneNone

\* a step of the geocoding stage
C4_Step ==
    pc \in {"geocode_submit", "geocode"} =>
        /\ access_token' = access_token
        /\ token_expiry' = token_expiry
        /\ (pc = "geocode" /\ task' # task) =>
            /\ DOMAIN task' = DOMAIN task
            /\ Cardinality({i \in DOMAIN task : task'[i] # task[i]}) = 1
            /\ UNCHANGED <<pc, error, tokenVars, providerVars, geocode_results,
                           censusVars, outVars>>

\* C4: from the submission of the work items to the return of
\* geocode_addresses_concurrently no step changes access_token or
\* token_expiry, and a worker's step changes the one work item it runs and
\* nothing the main thread or another worker reads.
C4_WorkersShareNothing == [][C4_Step]_vars

\* C4's case: the geocoding of two addresses has ended, after failures, with
\* the token process_data started with
C4_Witness ==
    /\ pc = "assign"
    /\ Len(task) = 2
    /\ \A i \in DOMAIN task : task[i].failures > 0
    /\ access_token = bearer

\* C5: the stages come in the order token, provider fetch, geocoding, census
\* fetch, provider file, census file; the census request is not sent while a
\* geocoding call is queued or running; no file is written before the
\* geocoding and the census fetch have ended; a run that ends has written
\* both files under one time stamp.
C5_SingleLinearJob ==
    /\ dataGets <= 1 /\ censusReqs <= 1 /\ Len(files) <= 2
    /\ dataGets > 0 => tokensIssued >= 1 /\ access_token # 0 /\ bearer = access_token
    /\ (task # <<>> \/ geocode_results # <<>>) =>
        dataGets = 1 /\ pc # "data_wait" /\ "Full Address" \in columns
    /\ censusReqs > 0 =>
        /\ task = <<>>
        /\ Len(geocode_results) = Len(df)
        /\ "Latitude" \in columns
    /\ files # <<>> =>
        /\ censusReqs = 1
        /\ pc \in {"write_census", "done"}
        /\ files[1].name = "processed_providers"
        /\ files[1].stamp = timestamp
    /\ Len(files) = 2 =>
        /\ files[2].name = "processed_census"
        /\ files[2].stamp = files[1].stamp
    /\ pc = "done" <=> Len(files) = 2

\* C5's case: a run has ended, the clock having moved since the time stamp
\* was taken
C5_Witness ==
    /\ pc = "done"
    /\ Len(files) = 2
    /\ timestamp < now

\* the census request was answered and fetch_census_data returned None
CensusFailed == censusReqs = 1 /\ pc # "census_wait" /\ census_data.none

\* C7: fetch_census_data returns None for a status other than 200 and for a
\* body that is no JSON; process_data then raises nothing, goes on to the
\* end and writes both files, the census file without rows and the provider
\* file, as after any census answer, with the rows as geocoded.
C7_CensusFailureDoesNotAbort ==
    /\ \A r \in CensusResponses :
        (r.status # 200 \/ ~r.json) => fetch_census_data(r) = NoList
    /\ CensusFailed =>
        /\ error = ""
        /\ pc \in {"stamp", "write_providers", "write_census", "done"}
        /\ pc = "done" \/ ENABLED (StampTime \/ WriteProviders \/ WriteCensus)
        /\ census_results = <<>>
        /\ pc = "done" => Len(files) = 2 /\ files[2].rows = <<>>
    /\ Len(files) >= 1 =>
        /\ files[1].rows = df
        /\ df = assign_columns(df, geocode_results)

\* C7's case: the census fetch failed and the run ended
C7_Witness == CensusFailed /\ pc = "done"

\* the provider endpoint answered with records that lack a required column
ColumnsMissing ==
    /\ dataGets = 1
    /\ pc # "data_wait"
    /\ error \notin {"HTTPError", "KeyError"}
    /\ ~(required_columns \subseteq columns)

\* C9: when the records lack AddressLine1, City or ZipCode (an empty list
\* lacks all three), process_data raises ValueError with no geocoding call
\* made, no census request sent and no file written.
C9_MissingColumnsRaiseFirst ==
    ColumnsMissing =>
        /\ pc = "raised"
        /\ error = "ValueError"
        /\ task = <<>>
        /\ geocode_results = <<>>
        /\ censusReqs = 0
        /\ files = <<>>

\* C9's case: the records have AddressLine1 and City, none has ZipCode
C9_Witness ==
    /\ ColumnsMissing
    /\ "City" \in columns
    /\ "ZipCode" \notin columns

\* the step of line 36
C10_Check ==
    pc = "fetch_check" /\ pc' # pc =>
        /\ (now >= token_expiry) <=> (tokenPosts' = tokenPosts + 1)
        /\ (now >= token_expiry) <=> (pc' = "refresh_wait")
        /\ access_token' = access_token
        /\ token_expiry' = token_expiry
        /\ now < token_expiry =>
            /\ tokenPosts' = tokenPosts
            /\ bearer' = access_token

\* the assignment of line 37
C10_Replace ==
    pc = "refresh_wait" /\ pc' = "data_wait" =>
        /\ token_data'.access_token \notin {access_token, 0}
        /\ access_token' = token_data'.access_token
        /\ tokenTime' = now
        /\ token_expiry' = tokenTime' + token_data'.expires_in - 60
        /\ bearer' = access_token'

\* the token fetch_data sends
C10_Bearer ==
    pc = "data_wait" =>
        /\ bearer = access_token
        /\ token_data.expires_in > 60 => token_expiry > checkTime

\* C10: get_valid_access_token requests a token iff time() >= token_expiry;
\* then both globals are replaced, by the new token and by the time of the
\* token request (what time() gives on line 32) + expires_in - 60; otherwise
\* nothing is requested and both globals stay. With expires_in > 60 the
\* token fetch_data sends has an expiry later than the time of the check.
C10_TokenRefresh ==
    /\ [][C10_Check /\ C10_Replace]_vars
    /\ []C10_Bearer

\* C10's case: the token was replaced, the answer came after the check, and
\* the new token is sent
C10_Witness ==
    /\ pc = "data_wait"
    /\ tokenPosts = 2
    /\ token_data.expires_in > 60
    /\ tokenTime > checkTime
====
